---- MODULE Spec2Model ----
(***************************************************************************)
(* Two-peer turn-based battle protocol of src/multiplayer_pvp.rs: the      *)
(* damage function mult_calculate_turn, the receive loop recv_packets, and *)
(* the host / client action and end-of-turn handlers, run frame by frame   *)
(* on each peer over a datagram channel.                                   *)
(***************************************************************************)
EXTENDS Integers, Sequences, FiniteSets, TLC

(***************************************************************************)
(* Bounds of the model                                                     *)
(***************************************************************************)
\* action declarations (handler runs that send) the two peers may make in all
MaxDecl == 3

(***************************************************************************)
(* Program constants                                                       *)
(***************************************************************************)
\* Health { max_health: 100, health: 100 } of the opponent combatant
InitHealth == 100
\* convert_num_to_element accepts 0..7
NumElements == 8

Peers == {"host", "client"}
Other(p) == IF p = "host" THEN "client" ELSE "host"

\* action ids: 0 attack, 1 defend, 2 elemental, 3 special
ActionIds == 0..3

\* `x as u8`
AsU8(x) == x % 256

(***************************************************************************)
(* TypeSystem.type_modifier is defined outside this file (crate::world).   *)
(* The table is an 8x8 matrix of multipliers indexed                       *)
(* [attacker_element][defender_element]; the entries are kept here as      *)
(* twice their value (1 = 0.5, 2 = 1.0, 4 = 2.0), each element being       *)
(* strong against its successor and weak against its predecessor.          *)
(***************************************************************************)
type_modifier2(attacker, defender) ==
    IF defender = (attacker + 1) % NumElements THEN 4
    ELSE IF attacker = (defender + 1) % NumElements THEN 1
    ELSE 2

\* (type_modifier[a][d] * dmg as f32).trunc() as usize
trunc_mul(attacker, defender, dmg) == (type_modifier2(attacker, defender) * dmg) \div 2

\* the multiplier of the player's elemental damage, lines 1032 and 1053
player_modifier_mut(player_type, enemy_type, dmg) == trunc_mul(enemy_type, player_type, dmg)
player_modifier(player_type, enemy_type, dmg) == trunc_mul(player_type, enemy_type, dmg)

\* the multiplier of the enemy's elemental damage, lines 1059 and 1080
enemy_modifier_mut(player_type, enemy_type, dmg) == trunc_mul(player_type, enemy_type, dmg)
enemy_modifier(player_type, enemy_type, dmg) == trunc_mul(enemy_type, player_type, dmg)

\* if either side defends this turn will not have any damage on either side
either_defends_mut(player_action, enemy_action) == player_action = 1
either_defends(player_action, enemy_action) == player_action = 1 \/ enemy_action = 1

\* if atk <= def { 0 } else { (atk - def) as usize }, on u8 operands
base_damage_neg(atk, def) == atk - def
base_damage_mut(atk, def) == (atk - def) % 256
base_damage(atk, def) == IF atk <= def THEN 0 ELSE atk - def

\* the compound move: result += inner attack damage
special_sum_mut(base, inner) == inner
special_sum(base, inner) == base + inner

RECURSIVE mult_calculate_turn(_, _, _, _, _, _, _, _, _, _)
mult_calculate_turn(player_atk, player_crt, player_def, player_type, player_action, enemy_atk, enemy_crt, enemy_def, enemy_type, enemy_action) ==
    IF either_defends(player_action, enemy_action) THEN <<0, 0>>
    ELSE
      LET base0 == base_damage(player_atk, enemy_def)
          base1 == base_damage(enemy_atk, player_def)
          result0 ==
            IF player_action = 2
              THEN player_modifier(player_type, enemy_type, base0)
            ELSE IF player_action = 3
              THEN player_modifier(player_type, enemy_type,
                     special_sum(base0,
                       mult_calculate_turn(player_atk, player_crt, player_def, player_type, 0,
                                           enemy_atk, enemy_crt, enemy_def, enemy_type,
                                           enemy_action)[1]))
            ELSE base0
          result1 ==
            IF enemy_action = 2
              THEN enemy_modifier(player_type, enemy_type, base1)
            ELSE IF enemy_action = 3
              THEN enemy_modifier(player_type, enemy_type,
                     special_sum(base1,
                       mult_calculate_turn(player_atk, player_crt, player_def, player_type,
                                           player_action,
                                           enemy_atk, enemy_crt, enemy_def, enemy_type, 0)[2]))
            ELSE base1
      IN <<result0, result1>>

\* the <<player_action, enemy_action>> of the calls the body makes itself: the first
\* inside `else if player_action == 3`, the second inside `else if enemy_action == 3`
inner_calls(player_action, enemy_action) ==
    IF either_defends(player_action, enemy_action) THEN <<>>
    ELSE (IF player_action = 3 THEN <<(<<0, enemy_action>>)>> ELSE <<>>)
         \o (IF enemy_action = 3 THEN <<(<<player_action, 0>>)>> ELSE <<>>)

\* the number of frames of mult_calculate_turn on the stack at the deepest point of a call
RECURSIVE call_depth(_, _)
call_depth(player_action, enemy_action) ==
    LET inner == inner_calls(player_action, enemy_action)
        below == [i \in 1..Len(inner) |-> call_depth(inner[i][1], inner[i][2])]
    IN 1 + (IF below = <<>> THEN 0
            ELSE CHOOSE d \in {below[i] : i \in 1..Len(below)} :
                   \A i \in 1..Len(below) : below[i] <= d)

(***************************************************************************)
(* State                                                                   *)
(***************************************************************************)
VARIABLES
    stats,                \* each peer's own combatant: Strength.atk, Strength.crt, Defense.def, Element
    TurnFlag,             \* resource TurnFlag(bool) of each peer
    CachedData,           \* resource CachedData(BattleData) of each peer
    CachedAction,         \* resource CachedAction(usize) of each peer
    health,               \* Health.health of each peer's own combatant
    enemy_health,         \* Health.health of each peer's opponent combatant
    enemies,              \* elements of the SelectedEnemyMonster entities of each peer
    ReadyToSpawnEnemy,    \* resource ReadyToSpawnEnemy exists
    EnemyMonsterSpawned,  \* resource EnemyMonsterSpawned exists
    host_action_event,    \* HostActionEvent values not yet read by host_end_turn_handler
    client_action_event,  \* ClientActionEvent values not yet read by client_end_turn_handler
    monster_type_event,   \* MonsterTypeEvent values not yet read by handle_monster_type_event
    commands,             \* Commands queued in the running frame, applied when the stage ends
    game_state,           \* "MultiplayerPvPBattle", "Start" (battle left) or "aborted" (process gone)
    todo,                 \* systems of the running frame that have not run yet
    net,                  \* datagrams sent to each peer and not received yet, oldest first
    decl,                 \* number of declarations each peer made
    log,                  \* one record per resolution each peer applied
    pc,                   \* where each peer is inside a run of its action handler
    fault,                \* what the channel did wrong in this battle, if anything
    args,                 \* arguments of a direct call of mult_calculate_turn
    result,               \* what that call returned
    again                 \* what a second call with the same arguments returned

vars == <<stats, TurnFlag, CachedData, CachedAction, health, enemy_health, enemies,
          ReadyToSpawnEnemy, EnemyMonsterSpawned, host_action_event, client_action_event,
          monster_type_event, commands, game_state, todo, net, decl, log, pc,
          fault, args, result, again>>

protocol_vars == <<stats, TurnFlag, CachedData, CachedAction, health, enemy_health, enemies,
          ReadyToSpawnEnemy, EnemyMonsterSpawned, host_action_event, client_action_event,
          monster_type_event, commands, game_state, todo, net, decl, log, pc,
          fault>>

\* the combatants a battle is started with: <<host's, client's>>
Ember10 == [atk |-> 10, crt |-> 25, def |-> 2, ele |-> 2]
Growth3 == [atk |-> 3, crt |-> 25, def |-> 1, ele |-> 1]
Flood120 == [atk |-> 120, crt |-> 25, def |-> 1, ele |-> 3]
Battles ==
    { <<Ember10, Growth3>>, <<Flood120, Flood120>>, <<Flood120, Growth3>>,
      <<Growth3, Flood120>> }

\* the sets of action keys found just pressed in one frame (A = 0, D = 1, E = 2, S = 3)
Pressed == { {0}, {1}, {2}, {3}, {0, 1} }

\* BattleData::default()
DefaultBattleData == [act |-> 0, atk |-> 0, crt |-> 0, def |-> 0, ele |-> 0]

\* the systems of the ConditionSet that touch the protocol state, per role
Systems(p) ==
    IF p = "host"
      THEN {"recv_packets", "host_action_handler", "host_end_turn_handler",
            "handle_monster_type_event"}
      ELSE {"recv_packets", "client_action_handler", "client_end_turn_handler",
            "handle_monster_type_event"}

NoCommands == [spawn |-> <<>>, next_state |-> FALSE]

\* usize::to_ne_bytes / usize::from_ne_bytes, both peers little-endian and 64 bit
to_ne_bytes(n) == <<n % 256, (n \div 256) % 256, 0, 0, 0, 0, 0, 0>>
from_ne_bytes(b) == b[1] + 256 * b[2]

\* setup_mult_battle: send type of monster to other player
AnnounceMessage(element) == [action |-> "MonsterType", payload |-> to_ne_bytes(element)]

\* the channel has delivered what was sent, and nothing else
\* (logs: the resolutions each peer had applied when the fault happened)
NoFault ==
    [kind |-> "none", to |-> "none", item |-> [action |-> "none", payload |-> <<>>],
     logs |-> [p \in Peers |-> 0]]

\* no run of the action handler is under way
Ready == [at |-> "ready", keys |-> <<>>]

NoArgs == <<0, 0, 0, 0, 0, 0, 0, 0, 0, 0>>
NoResult == <<-1, -1>>

\* the state after both peers entered GameState::MultiplayerPvPBattle
InitBattle(host_stats, client_stats) ==
    /\ stats = [p \in Peers |-> IF p = "host" THEN host_stats ELSE client_stats]
    /\ TurnFlag = [p \in Peers |-> p = "host"]
    /\ CachedData = [p \in Peers |-> DefaultBattleData]
    /\ CachedAction = [p \in Peers |-> 0]
    /\ health = [p \in Peers |-> InitHealth]
    /\ enemy_health = [p \in Peers |-> InitHealth]
    /\ enemies = [p \in Peers |-> <<>>]
    /\ ReadyToSpawnEnemy = [p \in Peers |-> FALSE]
    /\ EnemyMonsterSpawned = [p \in Peers |-> FALSE]
    /\ host_action_event = [p \in Peers |-> <<>>]
    /\ client_action_event = [p \in Peers |-> <<>>]
    /\ monster_type_event = [p \in Peers |-> <<>>]
    /\ commands = [p \in Peers |-> NoCommands]
    /\ game_state = [p \in Peers |-> "MultiplayerPvPBattle"]
    /\ todo = [p \in Peers |-> Systems(p)]
    /\ net = [p \in Peers |->
                IF p = "host" THEN <<AnnounceMessage(client_stats.ele)>>
                ELSE <<AnnounceMessage(host_stats.ele)>>]
    /\ decl = [p \in Peers |-> 0]
    /\ log = [p \in Peers |-> <<>>]
    /\ pc = [p \in Peers |-> Ready]
    /\ fault = NoFault

Init ==
    /\ \E battle \in Battles : InitBattle(battle[1], battle[2])
    /\ args = NoArgs
    /\ result = NoResult
    /\ again = NoResult


(***************************************************************************)
(* Wire format of StartTurn / FinishTurn                                   *)
(***************************************************************************)
\* action_and_data: the five bytes pushed by the action handlers
Payload_mut(a, st) == <<a, AsU8(st.atk), AsU8(st.def), AsU8(st.crt), AsU8(st.ele)>>
Payload(a, st) == <<a, AsU8(st.atk), AsU8(st.crt), AsU8(st.def), AsU8(st.ele)>>

TurnMessage(kind, a, st) == [action |-> kind, payload |-> Payload(a, st)]

\* BattleData { act: payload[0], atk: payload[1], crt: payload[2], def: payload[3], ele: payload[4] }
DecodeBattleData(payload) ==
    [act |-> payload[1], atk |-> payload[2], crt |-> payload[3],
     def |-> payload[4], ele |-> payload[5]]

\* the keys A, D, E, S are tested in this order; they select the actions 0, 1, 2, 3
KeySeq(keys) == SelectSeq(<<0, 1, 2, 3>>, LAMBDA a : a \in keys)

(***************************************************************************)
(* recv_packets                                                            *)
(***************************************************************************)
\* what recv can return besides a StartTurn, FinishTurn or MonsterType datagram:
\*   "RecvError"  Err(err) with a kind other than WouldBlock
\*   "Garbage"    bytes that bincode does not decode to a Message
\*   "Other"      a Message of another BattleAction kind
\* the Err arm: the error is logged, the loop is left
on_recv_error_mut(st) == [st EXCEPT !.alive = FALSE]
on_recv_error(st) == [st EXCEPT !.stop = TRUE]

\* bincode::deserialize(&buf[..msg]).unwrap()
on_garbage(st) == [st EXCEPT !.alive = FALSE]

\* MonsterType: payload.try_into().unwrap() needs the 8 bytes of a usize
on_monster_type_mut(st, msg) ==
    IF Len(msg.payload) # 8 THEN [st EXCEPT !.alive = FALSE]
    ELSE [st EXCEPT !.turn = TRUE, !.mte = Append(@, msg)]
on_monster_type(st, msg) ==
    IF Len(msg.payload) # 8 THEN [st EXCEPT !.alive = FALSE]
    ELSE [st EXCEPT !.mte = Append(@, msg)]

\* StartTurn: the flag is set, then payload[0] .. payload[4] are indexed
on_start_turn(st, msg) ==
    IF Len(msg.payload) < 5 THEN [st EXCEPT !.turn = TRUE, !.alive = FALSE]
    ELSE [st EXCEPT !.turn = TRUE, !.data = DecodeBattleData(msg.payload)]

\* FinishTurn: the flag is set, then payload[0] .. payload[4] are indexed
on_finish_turn_mut(st, msg) ==
    IF Len(msg.payload) < 5 THEN [st EXCEPT !.turn = TRUE, !.alive = FALSE]
    ELSE [st EXCEPT !.turn = TRUE, !.data = DecodeBattleData(msg.payload),
                    !.hae = Append(@, DecodeBattleData(msg.payload))]
on_finish_turn(st, msg) ==
    IF Len(msg.payload) < 5 THEN [st EXCEPT !.turn = TRUE, !.alive = FALSE]
    ELSE [st EXCEPT !.turn = TRUE, !.hae = Append(@, DecodeBattleData(msg.payload))]

\* warn!("Unrecognized action type"); break;
on_unrecognized(st) == [st EXCEPT !.stop = TRUE]

\* one iteration of the loop on what recv returned
dispatch(st, msg) ==
    IF msg.action = "RecvError" THEN on_recv_error(st)
    ELSE IF msg.action = "Garbage" THEN on_garbage(st)
    ELSE IF msg.action = "MonsterType" THEN on_monster_type(st, msg)
    ELSE IF msg.action = "StartTurn" THEN on_start_turn(st, msg)
    ELSE IF msg.action = "FinishTurn" THEN on_finish_turn(st, msg)
    ELSE on_unrecognized(st)

\* the loop runs until recv reports WouldBlock (buf is used up), or until it is left
\* by a break or a panic; n counts what was taken from the socket
RECURSIVE recv_loop(_, _)
recv_loop(st, buf) ==
    IF buf = <<>> \/ st.stop \/ ~st.alive THEN st
    ELSE recv_loop([dispatch(st, Head(buf)) EXCEPT !.n = @ + 1], Tail(buf))

\* a system that may change nothing if it runs now: no datagram has arrived yet, no key
\* is pressed, there is no event to read
Idle(p, system) ==
    CASE system = "recv_packets" -> TRUE
      [] system = "host_action_handler" -> TRUE
      [] system = "client_action_handler" -> TRUE
      [] system = "host_end_turn_handler" -> host_action_event[p] = <<>>
      [] system = "client_end_turn_handler" -> client_action_event[p] = <<>>
      [] system = "handle_monster_type_event" -> monster_type_event[p] = <<>>

\* a peer whose frame has begun and not ended
MidFrame(p) == game_state[p] = "MultiplayerPvPBattle" /\ todo[p] # Systems(p)

\* The systems of a frame run once each, in any order.  A step of the model is a run
\* that changes the state, together with the idle runs that the frame's order puts
\* before it.  A frame is short against the flight of a datagram: the frames of the
\* two peers do not overlap.
Running(p, system) ==
    /\ game_state[p] = "MultiplayerPvPBattle"
    /\ pc[p] = Ready
    /\ ~MidFrame(Other(p))
    /\ system \in todo[p]
    /\ \E idle \in SUBSET {s \in todo[p] \ {system} : Idle(p, s)} :
         todo' = [todo EXCEPT ![p] = @ \ (idle \cup {system})]

\* arrived: how many of the datagrams sent to p have reached its socket when the loop runs
recv_arrived(p, arrived) ==
    /\ Running(p, "recv_packets")
    /\ arrived \in 1..Len(net[p])
    /\ LET st == recv_loop([turn |-> TurnFlag[p], data |-> CachedData[p],
                            hae |-> host_action_event[p], mte |-> monster_type_event[p],
                            n |-> 0, stop |-> FALSE, alive |-> TRUE],
                           SubSeq(net[p], 1, arrived))
       IN /\ TurnFlag' = [TurnFlag EXCEPT ![p] = st.turn]
          /\ CachedData' = [CachedData EXCEPT ![p] = st.data]
          /\ host_action_event' = [host_action_event EXCEPT ![p] = st.hae]
          /\ monster_type_event' = [monster_type_event EXCEPT ![p] = st.mte]
          /\ net' = [net EXCEPT ![p] = SubSeq(@, st.n + 1, Len(@))]
          /\ game_state' = [game_state EXCEPT ![p] = IF st.alive THEN @ ELSE "aborted"]
    /\ UNCHANGED <<stats, pc, fault, CachedAction, health, enemy_health, enemies,
                   ReadyToSpawnEnemy, EnemyMonsterSpawned, client_action_event, commands,
                   decl, log, args, result, again>>

recv_packets(p) == \E arrived \in 1..Len(net[p]) : recv_arrived(p, arrived)

(***************************************************************************)
(* Action handlers                                                         *)
(***************************************************************************)
\* the datagrams one run of an action handler sends, one per key found pressed
Declared(kind, keys, st) ==
    [i \in 1..Len(KeySeq(keys)) |-> TurnMessage(kind, KeySeq(keys)[i], st)]

\* the snapshot the host caches: battle_data.0 = BattleData { act, atk, crt, def, ele }
HostSnapshot(a, st) ==
    [act |-> a, atk |-> AsU8(st.atk), crt |-> AsU8(st.crt), def |-> AsU8(st.def),
     ele |-> AsU8(st.ele)]

\* whether this run of the handler declares: it is this peer's turn and a key is pressed
Declares_mut(p, keys) == keys # {}
Declares(p, keys) == TurnFlag[p] /\ keys # {}

\* if turn.0 == true { .. }: the key blocks are inside; a run that finds the flag false
\* keeps what it has
when_turn_mut(turn, declared, kept) == declared
when_turn(turn, declared, kept) == IF turn THEN declared ELSE kept

host_action_handler(keys) ==
    /\ Running("host", "host_action_handler")
    /\ EnemyMonsterSpawned["host"]
    /\ keys # {}
    /\ Declares("host", keys) => decl["host"] + decl["client"] < MaxDecl
    /\ LET turn == Declares("host", keys)
           last == KeySeq(keys)[Len(KeySeq(keys))]
       IN /\ TurnFlag' = [TurnFlag EXCEPT !["host"] = when_turn(turn, FALSE, @)]
          /\ net' = [net EXCEPT !["client"] =
                       @ \o when_turn(turn, Declared("StartTurn", keys, stats["host"]), <<>>)]
          /\ CachedData' = [CachedData EXCEPT !["host"] =
                       when_turn(turn, HostSnapshot(last, stats["host"]), @)]
          /\ CachedAction' = [CachedAction EXCEPT !["host"] = when_turn(turn, last, @)]
          /\ decl' = [decl EXCEPT !["host"] = when_turn(turn, @ + 1, @)]
    /\ UNCHANGED <<stats, pc, fault, health, enemy_health, enemies, ReadyToSpawnEnemy,
                   EnemyMonsterSpawned, host_action_event, client_action_event,
                   monster_type_event, commands, game_state, log, args, result, again>>

client_action_handler(keys) ==
    /\ Running("client", "client_action_handler")
    /\ keys # {}
    /\ Declares("client", keys) => decl["host"] + decl["client"] < MaxDecl
    /\ LET turn == Declares("client", keys)
           last == KeySeq(keys)[Len(KeySeq(keys))]
       IN /\ TurnFlag' = [TurnFlag EXCEPT !["client"] = when_turn(turn, FALSE, @)]
          /\ net' = [net EXCEPT !["host"] =
                       @ \o when_turn(turn, Declared("FinishTurn", keys, stats["client"]), <<>>)]
          /\ client_action_event' = [client_action_event EXCEPT !["client"] =
                       @ \o when_turn(turn,
                                      [i \in 1..Len(KeySeq(keys)) |-> CachedData["client"]],
                                      <<>>)]
          /\ CachedAction' = [CachedAction EXCEPT !["client"] = when_turn(turn, last, @)]
          /\ decl' = [decl EXCEPT !["client"] = when_turn(turn, @ + 1, @)]
    /\ UNCHANGED <<stats, pc, fault, CachedData, health, enemy_health, enemies, ReadyToSpawnEnemy,
                   EnemyMonsterSpawned, host_action_event,
                   monster_type_event, commands, game_state, log, args, result, again>>


(***************************************************************************)
(* End-of-turn (resolution) handlers                                       *)
(***************************************************************************)
\* the if / else if chain on the two healths after the damage was subtracted
terminal_check_mut(local_hp, enemy_hp, local_name, enemy_name) ==
    IF local_hp <= 0 THEN enemy_name
    ELSE IF local_hp <= 0 /\ enemy_hp <= 0 THEN "draw"
    ELSE IF enemy_hp <= 0 THEN local_name
    ELSE "continue"
terminal_check(local_hp, enemy_hp, local_name, enemy_name) ==
    IF local_hp <= 0 /\ enemy_hp <= 0 THEN "draw"
    ELSE IF local_hp <= 0 THEN enemy_name
    ELSE IF enemy_hp <= 0 THEN local_name
    ELSE "continue"

\* commands.insert_resource(NextState(GameState::Start)) is in the three terminal branches
issues_next_state(verdict) == verdict \in {"draw", "host", "client"}

\* mult_calculate_turn(local stats as u8, cached action as u8, data.atk, .., data.act)
turn_result(p, data) ==
    mult_calculate_turn(AsU8(stats[p].atk), AsU8(stats[p].crt), AsU8(stats[p].def),
                        AsU8(stats[p].ele), AsU8(CachedAction[p]),
                        data.atk, data.crt, data.def, data.ele, data.act)

\* the part the two end-of-turn handlers share, once an event was read
Resolve(p, data) ==
    IF Len(enemies[p]) # 1
      THEN \* enemy_monster_query.single_mut() panics
           /\ game_state' = [game_state EXCEPT ![p] = "aborted"]
           /\ UNCHANGED <<health, enemy_health, commands, log>>
      ELSE LET r == turn_result(p, data)
               local_hp == health[p] - r[2]
               enemy_hp == enemy_health[p] - r[1]
               verdict == terminal_check(local_hp, enemy_hp, p, Other(p))
           IN /\ health' = [health EXCEPT ![p] = local_hp]
              /\ enemy_health' = [enemy_health EXCEPT ![p] = enemy_hp]
              /\ commands' = [commands EXCEPT ![p].next_state =
                                @ \/ issues_next_state(verdict)]
              /\ log' = [log EXCEPT ![p] = Append(@,
                           [local |-> local_hp, enemy |-> enemy_hp, verdict |-> verdict,
                            exit |-> issues_next_state(verdict)])]
              /\ UNCHANGED game_state

\* wrapped_data is the last event the reader returns
host_end_turn_handler ==
    /\ Running("host", "host_end_turn_handler")
    /\ ~Idle("host", "host_end_turn_handler")       \* wrapped_data.is_none() returns
    /\ Resolve("host", host_action_event["host"][Len(host_action_event["host"])])
    /\ host_action_event' = [host_action_event EXCEPT !["host"] = <<>>]
    /\ UNCHANGED <<stats, pc, fault, TurnFlag, CachedData, CachedAction, enemies, ReadyToSpawnEnemy,
                   EnemyMonsterSpawned, client_action_event, monster_type_event,
                   net, decl, args, result, again>>

client_end_turn_handler ==
    /\ Running("client", "client_end_turn_handler")
    /\ ~Idle("client", "client_end_turn_handler")   \* wrapped_data.is_none() returns
    /\ Resolve("client", client_action_event["client"][Len(client_action_event["client"])])
    /\ client_action_event' = [client_action_event EXCEPT !["client"] = <<>>]
    /\ UNCHANGED <<stats, pc, fault, TurnFlag, CachedData, CachedAction, enemies, ReadyToSpawnEnemy,
                   EnemyMonsterSpawned, host_action_event, monster_type_event,
                   net, decl, args, result, again>>

(***************************************************************************)
(* Opponent combatant                                                      *)
(***************************************************************************)
\* convert_num_to_element: 0..7 are elements, anything else exits the process
valid_element_mut(num) == num \in 0..NumElements
valid_element(num) == num \in 0..(NumElements - 1)

\* the elements announced by the events read in this run
Announced(events) == [i \in 1..Len(events) |-> from_ne_bytes(events[i].payload)]

handle_monster_type_event(p) ==
    /\ Running(p, "handle_monster_type_event")
    /\ ~Idle(p, "handle_monster_type_event")
    /\ LET nums == Announced(monster_type_event[p])
       IN IF \E i \in 1..Len(nums) : ~valid_element(nums[i])
            THEN /\ game_state' = [game_state EXCEPT ![p] = "aborted"]
                 /\ UNCHANGED commands
            ELSE /\ commands' = [commands EXCEPT ![p].spawn = @ \o nums]
                 /\ UNCHANGED game_state
    /\ monster_type_event' = [monster_type_event EXCEPT ![p] = <<>>]
    /\ UNCHANGED <<stats, pc, fault, TurnFlag, CachedData, CachedAction, health, enemy_health, enemies,
                   ReadyToSpawnEnemy, EnemyMonsterSpawned, host_action_event,
                   client_action_event, net, decl, log, args, result, again>>

(***************************************************************************)
(* End of a frame: spawn_mult_enemy_monster reads only what the stage does *)
(* not change, so it is run here; then the queued Commands are applied and *)
(* the next frame begins.                                                  *)
(***************************************************************************)
EndFrame(p) ==
    /\ game_state[p] = "MultiplayerPvPBattle"
    /\ pc[p] = Ready
    /\ ~MidFrame(Other(p))
    /\ \A s \in todo[p] : Idle(p, s)
    /\ todo' = [todo EXCEPT ![p] = Systems(p)]
    /\ commands' = [commands EXCEPT ![p] = NoCommands]
    /\ enemies' = [enemies EXCEPT ![p] = @ \o commands[p].spawn]
    /\ IF ReadyToSpawnEnemy[p] /\ Len(enemies[p]) > 1
         THEN \* spawn_mult_enemy_monster: selected_monster_query.single() panics
              /\ game_state' = [game_state EXCEPT ![p] = "aborted"]
              /\ UNCHANGED <<ReadyToSpawnEnemy, EnemyMonsterSpawned>>
         ELSE /\ game_state' = [game_state EXCEPT ![p] =
                                  IF commands[p].next_state THEN "Start" ELSE @]
              /\ ReadyToSpawnEnemy' = [ReadyToSpawnEnemy EXCEPT ![p] =
                                  \/ commands[p].spawn # <<>>
                                  \/ @ /\ Len(enemies[p]) = 0]
              /\ EnemyMonsterSpawned' = [EnemyMonsterSpawned EXCEPT ![p] =
                                  @ \/ (ReadyToSpawnEnemy[p] /\ Len(enemies[p]) = 1)]
    /\ UNCHANGED <<stats, pc, fault, TurnFlag, CachedData, CachedAction, health, enemy_health,
                   host_action_event, client_action_event, monster_type_event,
                   net, decl, log, args, result, again>>

Next ==
    \/ \E p \in Peers : recv_packets(p)
    \/ \E keys \in Pressed : host_action_handler(keys)
    \/ \E keys \in Pressed : client_action_handler(keys)
    \/ host_end_turn_handler
    \/ client_end_turn_handler
    \/ \E p \in Peers : handle_monster_type_event(p)
    \/ \E p \in Peers : EndFrame(p)

Spec == Init /\ [][Next]_vars

\* Every system of the set runs once in every frame and the frames of a running peer
\* follow one another without end; a datagram that was sent arrives after finitely many
\* frames of the receiver.  The key presses are the players' and are not forced.
Fairness ==
    /\ \A p \in Peers : SF_vars(recv_packets(p))
    /\ \A p \in Peers : SF_vars(handle_monster_type_event(p))
    /\ \A p \in Peers : SF_vars(EndFrame(p))
    /\ SF_vars(host_end_turn_handler)
    /\ SF_vars(client_end_turn_handler)

(***************************************************************************)
(* The action handlers statement by statement: each key block sets the     *)
(* flag, sends, then caches; the blocks of the keys found pressed follow   *)
(* one another inside one run.                                             *)
(***************************************************************************)
ActionHandler(p) == IF p = "host" THEN "host_action_handler" ELSE "client_action_handler"
Kind(p) == IF p = "host" THEN "StartTurn" ELSE "FinishTurn"

\* turn.0 = false; // flip TurnFlag to false: the first statement of a key block
flag_after_key_mut(turn) == turn
flag_after_key(turn) == FALSE

\* the run begins: the flag is tested once, then the first key block is entered
key_flip(p, keys) ==
    /\ Running(p, ActionHandler(p))
    /\ p = "host" => EnemyMonsterSpawned[p]
    /\ Declares(p, keys)
    /\ decl["host"] + decl["client"] < MaxDecl
    /\ TurnFlag' = [TurnFlag EXCEPT ![p] = flag_after_key(@)]
    /\ pc' = [pc EXCEPT ![p] = [at |-> "flipped", keys |-> KeySeq(keys)]]
    /\ decl' = [decl EXCEPT ![p] = @ + 1]
    /\ UNCHANGED <<stats, fault, CachedData, CachedAction, health, enemy_health, enemies,
                   ReadyToSpawnEnemy, EnemyMonsterSpawned, host_action_event,
                   client_action_event, monster_type_event, commands, game_state, net,
                   log, args, result, again>>

\* game_client.socket.udp_socket.send(..)
key_send(p) ==
    /\ pc[p].at = "flipped"
    /\ net' = [net EXCEPT ![Other(p)] = Append(@, TurnMessage(Kind(p), Head(pc[p].keys), stats[p]))]
    /\ pc' = [pc EXCEPT ![p].at = "sent"]
    /\ UNCHANGED <<stats, fault, TurnFlag, CachedData, CachedAction, health, enemy_health, enemies,
                   ReadyToSpawnEnemy, EnemyMonsterSpawned, host_action_event,
                   client_action_event, monster_type_event, commands, game_state, todo,
                   decl, log, args, result, again>>

\* the host caches its snapshot, the client raises its event; both cache the action
key_cache(p) ==
    /\ pc[p].at = "sent"
    /\ CachedAction' = [CachedAction EXCEPT ![p] = Head(pc[p].keys)]
    /\ IF p = "host"
         THEN /\ CachedData' = [CachedData EXCEPT ![p] = HostSnapshot(Head(pc[p].keys), stats[p])]
              /\ UNCHANGED client_action_event
         ELSE /\ client_action_event' = [client_action_event EXCEPT ![p] = Append(@, CachedData[p])]
              /\ UNCHANGED CachedData
    /\ pc' = [pc EXCEPT ![p] = IF Tail(pc[p].keys) = <<>> THEN Ready
                                ELSE [at |-> "cached", keys |-> Tail(pc[p].keys)]]
    /\ UNCHANGED <<stats, fault, TurnFlag, health, enemy_health, enemies, ReadyToSpawnEnemy,
                   EnemyMonsterSpawned, host_action_event, monster_type_event, commands,
                   game_state, todo, net, decl, log, args, result, again>>

\* the block of the next key found pressed begins, the flag is not tested again
key_next(p) ==
    /\ pc[p].at = "cached"
    /\ TurnFlag' = [TurnFlag EXCEPT ![p] = flag_after_key(@)]
    /\ pc' = [pc EXCEPT ![p].at = "flipped"]
    /\ UNCHANGED <<stats, fault, CachedData, CachedAction, health, enemy_health, enemies,
                   ReadyToSpawnEnemy, EnemyMonsterSpawned, host_action_event,
                   client_action_event, monster_type_event, commands, game_state, todo,
                   net, decl, log, args, result, again>>

NextStmt ==
    \/ \E p \in Peers : \E keys \in Pressed : key_flip(p, keys)
    \/ \E p \in Peers : key_send(p)
    \/ \E p \in Peers : key_cache(p)
    \/ \E p \in Peers : key_next(p)
    \/ \E p \in Peers : recv_packets(p)
    \/ host_end_turn_handler
    \/ client_end_turn_handler
    \/ \E p \in Peers : handle_monster_type_event(p)
    \/ \E p \in Peers : EndFrame(p)

InitStmt ==
    /\ \E battle \in {<<Ember10, Growth3>>, <<Growth3, Flood120>>} :
         InitBattle(battle[1], battle[2])
    /\ args = NoArgs
    /\ result = NoResult
    /\ again = NoResult

SpecStmt == InitStmt /\ [][NextStmt]_vars

(***************************************************************************)
(* The channel at fault: a datagram is lost, or recv returns something     *)
(* that no peer of this battle sent.  One fault in a battle.               *)
(***************************************************************************)
InitEnv ==
    /\ InitBattle(Ember10, Growth3)
    /\ args = NoArgs
    /\ result = NoResult
    /\ again = NoResult

\* no system of either peer is in the middle of a frame
BetweenFrames == \A p \in Peers : ~MidFrame(p) /\ pc[p] = Ready

\* one of the datagrams on its way to p, a StartTurn or a FinishTurn, never arrives
Lose(p) ==
    /\ fault = NoFault
    /\ BetweenFrames
    /\ \E i \in 1..Len(net[p]) :
         /\ net[p][i].action \in {"StartTurn", "FinishTurn"}
         /\ fault' = [kind |-> "lost", to |-> p, item |-> net[p][i],
                      logs |-> [q \in Peers |-> Len(log[q])]]
         /\ net' = [net EXCEPT ![p] = SubSeq(@, 1, i - 1) \o SubSeq(@, i + 1, Len(@))]
    /\ UNCHANGED <<stats, pc, TurnFlag, CachedData, CachedAction, health, enemy_health,
                   enemies, ReadyToSpawnEnemy, EnemyMonsterSpawned, host_action_event,
                   client_action_event, monster_type_event, commands, game_state, todo,
                   decl, log, args, result, again>>

\* the protocol on a reliable channel, every system running in every frame
SpecLive == InitEnv /\ [][Next]_vars /\ Fairness

NextLossy ==
    \/ Next
    \/ \E p \in Peers : Lose(p)

SpecLossy == InitEnv /\ [][NextLossy]_vars

\* what recv of udp_socket can return that the other peer's handlers never send
Strays ==
    { [action |-> "RecvError", payload |-> <<>>],
      [action |-> "Garbage", payload |-> <<>>],
      [action |-> "Other", payload |-> <<>>],
      [action |-> "StartTurn", payload |-> <<0, 10, 25, 2>>],
      [action |-> "StartTurn", payload |-> <<1, 10, 25, 2, 2, 9>>],
      [action |-> "FinishTurn", payload |-> <<0, 3, 25>>],
      [action |-> "MonsterType", payload |-> <<2>>],
      [action |-> "MonsterType", payload |-> to_ne_bytes(NumElements)],
      [action |-> "MonsterType", payload |-> to_ne_bytes(258)] }

\* the socket of p gets item behind what is already on its way
Inject(p, item) ==
    /\ fault = NoFault
    /\ BetweenFrames
    /\ game_state[p] = "MultiplayerPvPBattle"
    /\ fault' = [kind |-> "stray", to |-> p, item |-> item,
                 logs |-> [q \in Peers |-> Len(log[q])]]
    /\ net' = [net EXCEPT ![p] = Append(@, item)]
    /\ UNCHANGED <<stats, pc, TurnFlag, CachedData, CachedAction, health, enemy_health,
                   enemies, ReadyToSpawnEnemy, EnemyMonsterSpawned, host_action_event,
                   client_action_event, monster_type_event, commands, game_state, todo,
                   decl, log, args, result, again>>

\* one key a frame
PressedOne == { {0}, {1} }

NextFaults ==
    \/ \E p \in Peers : recv_packets(p)
    \/ \E keys \in PressedOne : host_action_handler(keys)
    \/ \E keys \in PressedOne : client_action_handler(keys)
    \/ host_end_turn_handler
    \/ client_end_turn_handler
    \/ \E p \in Peers : handle_monster_type_event(p)
    \/ \E p \in Peers : EndFrame(p)
    \/ \E p \in Peers : \E item \in Strays : Inject(p, item)

SpecFaults == InitEnv /\ [][NextFaults]_vars

(***************************************************************************)
(* One round about to be resolved on both peers, for combatants and        *)
(* actions of any kind: the host has declared, the client has received the *)
(* StartTurn and declared, the host has received the FinishTurn, and       *)
(* neither resolution handler has run yet.                                 *)
(***************************************************************************)
Combatants ==
    [atk : {0, 3, 255}, crt : {25}, def : {0, 2, 255}, ele : {0, 1, 2}]

InitRound ==
    /\ \E host_stats \in Combatants : \E client_stats \in Combatants :
       \E host_action \in ActionIds : \E client_action \in ActionIds :
         /\ stats = [p \in Peers |-> IF p = "host" THEN host_stats ELSE client_stats]
         /\ CachedAction = [p \in Peers |-> IF p = "host" THEN host_action ELSE client_action]
         /\ CachedData = [p \in Peers |-> HostSnapshot(host_action, host_stats)]
         /\ host_action_event =
              [p \in Peers |-> IF p = "host"
                                 THEN <<DecodeBattleData(Payload(client_action, client_stats))>>
                                 ELSE <<>>]
         /\ client_action_event =
              [p \in Peers |-> IF p = "client"
                                 THEN <<HostSnapshot(host_action, host_stats)>>
                                 ELSE <<>>]
         /\ enemies = [p \in Peers |-> IF p = "host" THEN <<client_stats.ele>>
                                       ELSE <<host_stats.ele>>]
    /\ TurnFlag = [p \in Peers |-> p = "host"]
    /\ health = [p \in Peers |-> InitHealth]
    /\ enemy_health = [p \in Peers |-> InitHealth]
    /\ ReadyToSpawnEnemy = [p \in Peers |-> FALSE]
    /\ EnemyMonsterSpawned = [p \in Peers |-> TRUE]
    /\ monster_type_event = [p \in Peers |-> <<>>]
    /\ commands = [p \in Peers |-> NoCommands]
    /\ game_state = [p \in Peers |-> "MultiplayerPvPBattle"]
    /\ todo = [p \in Peers |-> Systems(p)]
    /\ net = [p \in Peers |-> <<>>]
    /\ decl = [p \in Peers |-> 1]
    /\ log = [p \in Peers |-> <<>>]
    /\ pc = [p \in Peers |-> Ready]
    /\ fault = NoFault
    /\ args = NoArgs
    /\ result = NoResult
    /\ again = NoResult

NextRound ==
    \/ host_end_turn_handler
    \/ client_end_turn_handler
    \/ \E p \in Peers : EndFrame(p)

SpecRound == InitRound /\ [][NextRound]_vars

(***************************************************************************)
(* Direct calls of mult_calculate_turn                                     *)
(***************************************************************************)
StatValues == {0, 3, 10, 255}
DefValues == {0, 1, 2, 255}
CrtValues == {15, 25}
ElementValues == 0..(NumElements - 1)

ArgSets ==
    StatValues \X CrtValues \X DefValues \X ElementValues \X ActionIds \X
    StatValues \X CrtValues \X DefValues \X ElementValues \X ActionIds

InitCalc ==
    /\ InitBattle(Ember10, Growth3)
    /\ args \in ArgSets
    /\ result = NoResult
    /\ again = NoResult

\* the call with the commented-out critical strike of the player put back
Call_mut(a) ==
    LET r == mult_calculate_turn(a[1], a[2], a[3], a[4], a[5], a[6], a[7], a[8], a[9], a[10])
    IN IF a[2] > 15 THEN <<2 * r[1], r[2]>> ELSE r
Call(a) == mult_calculate_turn(a[1], a[2], a[3], a[4], a[5], a[6], a[7], a[8], a[9], a[10])

\* the arguments the opposing peer passes: its own combatant first
Swapped(a) == <<a[6], a[7], a[8], a[9], a[10], a[1], a[2], a[3], a[4], a[5]>>

Calculate ==
    /\ result = NoResult
    /\ result' = Call(args)
    /\ UNCHANGED <<args, again, protocol_vars>>

\* the same call once more, after the first one returned
CalculateAgain_mut ==
    /\ result # NoResult
    /\ again = NoResult
    /\ \E crit \in BOOLEAN :
         again' = IF crit THEN <<2 * Call(args)[1], Call(args)[2]>> ELSE Call(args)
    /\ UNCHANGED <<args, result, protocol_vars>>
CalculateAgain ==
    /\ result # NoResult
    /\ again = NoResult
    /\ again' = Call(args)
    /\ UNCHANGED <<args, result, protocol_vars>>

NextCalc == Calculate

SpecCalc == InitCalc /\ [][NextCalc]_vars

NextTwice ==
    \/ Calculate
    \/ CalculateAgain

SpecTwice == InitCalc /\ [][NextTwice]_vars


(***************************************************************************)
(* Properties of mult_calculate_turn, checked under SpecCalc               *)
(***************************************************************************)
Computed == result # NoResult

\* max(0, atk - def), the attack-only damage
AttackOnly(atk, def) == IF atk > def THEN atk - def ELSE 0

\* trunc(table[attacker][defender] * dmg), on the doubled entries of the table
Multiplied(attacker, defender, dmg) == (type_modifier2(attacker, defender) * dmg) \div 2

\* C3: symmetry under role swap: if the call with A as player and B as enemy returns
\* (x, y), the call with B as player and A as enemy returns (y, x).
C3_RoleSwapSymmetry ==
    Computed => Call(Swapped(args)) = <<result[2], result[1]>>

\* a special against an elemental, both sides doing different, positive damage
C3_Witness ==
    /\ Computed
    /\ args[5] = 3 /\ args[10] = 2
    /\ result[1] > 0 /\ result[2] > 0 /\ result[1] # result[2]
    /\ type_modifier2(args[4], args[9]) # type_modifier2(args[9], args[4])

\* C4: defend dominance: if either action is 1 the result is (0, 0), whatever the
\* stats, the elements and the other side's action.
C4_DefendDominance ==
    (Computed /\ (args[5] = 1 \/ args[10] = 1)) => result = <<0, 0>>

\* the enemy defends against a special that would otherwise hit
C4_Witness ==
    /\ Computed
    /\ args[10] = 1 /\ args[5] = 3 /\ args[1] > args[8]
    /\ result = <<0, 0>>

\* C5 as claimed: a special does trunc(table[actor][opponent] * b), b the attack-only
\* damage, when the opponent does not defend.
C5_SpecialIsMultipliedBase ==
    /\ (Computed /\ args[5] = 3 /\ args[10] # 1) =>
          result[1] = Multiplied(args[4], args[9], AttackOnly(args[1], args[8]))
    /\ (Computed /\ args[10] = 3 /\ args[5] # 1) =>
          result[2] = Multiplied(args[9], args[4], AttackOnly(args[6], args[3]))

\* C5: special-move composition: when an actor's action is 3 and the opponent does not
\* defend, the actor's damage is trunc(table[actor][opponent] * 2 * b), where b =
\* max(0, actor_atk - opponent_def): the base damage and the inner attack's damage
\* are added before the multiplier is applied.
C5_SpecialIsMultipliedDoubleBase ==
    /\ (Computed /\ args[5] = 3 /\ args[10] # 1) =>
          result[1] = Multiplied(args[4], args[9], 2 * AttackOnly(args[1], args[8]))
    /\ (Computed /\ args[10] = 3 /\ args[5] # 1) =>
          result[2] = Multiplied(args[9], args[4], 2 * AttackOnly(args[6], args[3]))

\* a special that hits, with a multiplier above 1.0, against a special with one below
C5_Witness ==
    /\ Computed
    /\ args[5] = 3 /\ args[10] = 3
    /\ type_modifier2(args[4], args[9]) > 2
    /\ type_modifier2(args[9], args[4]) < 2
    /\ result[1] > 0 /\ result[2] > 0

\* C6: plain-attack base damage: with both actions 0 the result is
\* (max(0, player_atk - enemy_def), max(0, enemy_atk - player_def)), never negative or
\* wrapped around; atk 10 / def 2 against atk 3 / def 1 gives (9, 1).
C6_PlainAttack ==
    (Computed /\ args[5] = 0 /\ args[10] = 0) =>
       /\ result = <<AttackOnly(args[1], args[8]), AttackOnly(args[6], args[3])>>
       /\ args[1] <= args[8] => result[1] = 0
       /\ args[6] <= args[3] => result[2] = 0
       /\ (args[1] = 10 /\ args[3] = 2 /\ args[6] = 3 /\ args[8] = 1) => result = <<9, 1>>

\* the player's attack is below the enemy's defense, the enemy's attack gets through
C6_Witness ==
    /\ Computed
    /\ args[5] = 0 /\ args[10] = 0
    /\ args[1] < args[8] /\ args[6] > args[3]
    /\ result[1] = 0 /\ result[2] > 0

\* C7: elemental move: an actor whose action is 2, against an opponent that does not
\* defend, does trunc(table[actor][opponent] * max(0, actor_atk - opponent_def)), the
\* table indexed attacker first in both directions; and the other direction's damage
\* is the same whether this actor's action is 0 or 2.
C7_Elemental ==
    /\ (Computed /\ args[5] = 2 /\ args[10] # 1) =>
          result[1] = Multiplied(args[4], args[9], AttackOnly(args[1], args[8]))
    /\ (Computed /\ args[10] = 2 /\ args[5] # 1) =>
          result[2] = Multiplied(args[9], args[4], AttackOnly(args[6], args[3]))
    /\ (Computed /\ args[5] \in {0, 2}) =>
          result[2] = Call([args EXCEPT ![5] = 2 - args[5]])[2]
    /\ (Computed /\ args[10] \in {0, 2}) =>
          result[1] = Call([args EXCEPT ![10] = 2 - args[10]])[1]

\* an elemental move whose product is truncated, the table differing with the index order
C7_Witness ==
    /\ Computed
    /\ args[5] = 2 /\ args[10] = 3
    /\ type_modifier2(args[4], args[9]) # type_modifier2(args[9], args[4])
    /\ 2 * result[1] # type_modifier2(args[4], args[9]) * AttackOnly(args[1], args[8])
    /\ result[1] > 0


(***************************************************************************)
(* Properties of the two-peer protocol, checked under Spec                 *)
(***************************************************************************)
Min(a, b) == IF a < b THEN a ELSE b

\* C1: outcome agreement: whenever both peers have resolved the same round, the host's
\* health is the client's opponent health, the client's health is the host's opponent
\* health, and the two verdicts of the round are the same.
C1_OutcomeAgreement ==
    \A k \in 1..Min(Len(log["host"]), Len(log["client"])) :
        /\ log["host"][k].local = log["client"][k].enemy
        /\ log["host"][k].enemy = log["client"][k].local
        /\ log["host"][k].verdict = log["client"][k].verdict

\* a StartTurn or FinishTurn datagram is on its way
InFlight ==
    \E p \in Peers : \E i \in 1..Len(net[p]) : net[p][i].action \in {"StartTurn", "FinishTurn"}

\* C2: turn-token exclusivity: the two TurnFlags are never both true, and with no
\* StartTurn / FinishTurn datagram in flight exactly one of them is true.
C2_TurnTokenExclusivity ==
    /\ ~(TurnFlag["host"] /\ TurnFlag["client"])
    /\ ~InFlight => (TurnFlag["host"] \/ TurnFlag["client"])

\* C8: terminal detection: every resolution ends in exactly the outcome its two healths
\* call for: both <= 0 draw, only the local one <= 0 the opponent wins, only the
\* opponent's <= 0 the local side wins, both > 0 the battle continues; and the exit to
\* GameState::Start is issued if and only if a health is <= 0.
C8_TerminalDetection ==
    \A p \in Peers :
      /\ \A k \in 1..Len(log[p]) :
           LET e == log[p][k] IN
             /\ (e.local <= 0 /\ e.enemy <= 0) => e.verdict = "draw"
             /\ (e.local <= 0 /\ e.enemy > 0) => e.verdict = Other(p)
             /\ (e.local > 0 /\ e.enemy <= 0) => e.verdict = p
             /\ (e.local > 0 /\ e.enemy > 0) => e.verdict = "continue"
             /\ e.exit <=> (e.local <= 0 \/ e.enemy <= 0)
             /\ e.exit => (commands[p].next_state \/ game_state[p] # "MultiplayerPvPBattle")
      /\ (commands[p].next_state \/ game_state[p] = "Start") =>
           \E k \in 1..Len(log[p]) : log[p][k].local <= 0 \/ log[p][k].enemy <= 0

\* one peer saw a draw, and one resolution let the battle continue
C8_Witness ==
    /\ \E p \in Peers : \E k \in 1..Len(log[p]) :
         log[p][k].verdict = "draw" /\ log[p][k].exit
    /\ \E p \in Peers : \E k \in 1..Len(log[p]) :
         log[p][k].verdict = "continue" /\ ~log[p][k].exit

\* C9: action declaration: a peer whose TurnFlag is true and that selects action a sends
\* one StartTurn (host) or FinishTurn (client) whose payload is [a, atk, crt, def,
\* element] of its own stats, sets its TurnFlag to false and CachedAction to a; the
\* host sets CachedData to that snapshot, the client raises a ClientActionEvent with
\* the CachedData it holds.
C9_Declared(p, kind, a) ==
    /\ TurnFlag[p]
    /\ ~TurnFlag'[p]
    /\ net'[Other(p)] = Append(net[Other(p)],
          [action |-> kind,
           payload |-> <<a, stats[p].atk, stats[p].crt, stats[p].def, stats[p].ele>>])
    /\ Len(net'[Other(p)][Len(net'[Other(p)])].payload) = 5
    /\ net'[p] = net[p]
    /\ CachedAction'[p] = a

C9_ActionDeclaration ==
    [][\A a \in ActionIds :
         /\ (TurnFlag["host"] /\ host_action_handler({a})) =>
              /\ C9_Declared("host", "StartTurn", a)
              /\ CachedData'["host"] =
                   [act |-> a, atk |-> stats["host"].atk, crt |-> stats["host"].crt,
                    def |-> stats["host"].def, ele |-> stats["host"].ele]
              /\ UNCHANGED <<host_action_event, client_action_event>>
         /\ (TurnFlag["client"] /\ client_action_handler({a})) =>
              /\ C9_Declared("client", "FinishTurn", a)
              /\ client_action_event'["client"] =
                   Append(client_action_event["client"], CachedData["client"])
              /\ CachedData'["client"] = CachedData["client"]]_vars

\* the host declared a special and the client, holding the StartTurn's snapshot,
\* answered with a defend
C9_Witness ==
    /\ ~TurnFlag["host"] /\ ~TurnFlag["client"]
    /\ CachedAction["host"] = 3 /\ CachedAction["client"] = 1
    /\ CachedData["host"] = [act |-> 3, atk |-> 10, crt |-> 25, def |-> 2, ele |-> 2]
    /\ net["host"] = <<[action |-> "FinishTurn", payload |-> <<1, 3, 25, 1, 1>>]>>
    /\ client_action_event["client"] = <<CachedData["host"]>>

\* the datagrams of one kind among those a run of recv_packets receives
OfKind(batch, kind) == SelectSeq(batch, LAMBDA m : m.action = kind)

RECURSIVE Decoded(_)
Decoded(batch) ==
    IF batch = <<>> THEN <<>>
    ELSE <<[act |-> Head(batch).payload[1], atk |-> Head(batch).payload[2],
            crt |-> Head(batch).payload[3], def |-> Head(batch).payload[4],
            ele |-> Head(batch).payload[5]]>> \o Decoded(Tail(batch))

\* C10: receive dispatch and its frame: a StartTurn sets TurnFlag and overwrites
\* CachedData with the decoded (act, atk, crt, def, ele), raising no resolution event
\* and changing no health; a FinishTurn sets TurnFlag and raises one HostActionEvent
\* with the decoded snapshot, leaving CachedData and CachedAction unchanged; a
\* MonsterType raises one MonsterTypeEvent and leaves TurnFlag, CachedData and
\* CachedAction unchanged.
C10_Received(p, batch) ==
    LET starts == Decoded(OfKind(batch, "StartTurn"))
        finishes == Decoded(OfKind(batch, "FinishTurn"))
        announces == OfKind(batch, "MonsterType")
    IN /\ TurnFlag'[p] = (TurnFlag[p] \/ starts # <<>> \/ finishes # <<>>)
       /\ CachedData'[p] = IF starts = <<>> THEN CachedData[p] ELSE starts[Len(starts)]
       /\ host_action_event'[p] = host_action_event[p] \o finishes
       /\ monster_type_event'[p] = monster_type_event[p] \o announces
       /\ UNCHANGED <<CachedAction, client_action_event, health, enemy_health, log>>
       /\ \A q \in Peers \ {p} :
            /\ TurnFlag'[q] = TurnFlag[q] /\ CachedData'[q] = CachedData[q]
            /\ host_action_event'[q] = host_action_event[q]
            /\ monster_type_event'[q] = monster_type_event[q]

C10_ReceiveDispatch ==
    [][\A p \in Peers :
         recv_packets(p) =>
           /\ Len(net'[p]) < Len(net[p])
           /\ net'[p] = SubSeq(net[p], Len(net[p]) - Len(net'[p]) + 1, Len(net[p]))
           /\ net'[Other(p)] = net[Other(p)]
           /\ C10_Received(p, SubSeq(net[p], 1, Len(net[p]) - Len(net'[p])))]_vars

\* the client received the host's elemental StartTurn; the host, having received the
\* client's FinishTurn, holds its own snapshot and an event not yet resolved
C10_Witness ==
    /\ TurnFlag["host"]
    /\ CachedData["host"] = [act |-> 2, atk |-> 10, crt |-> 25, def |-> 2, ele |-> 2]
    /\ CachedData["client"] = CachedData["host"]
    /\ host_action_event["host"] =
         <<[act |-> 0, atk |-> 3, crt |-> 25, def |-> 1, ele |-> 1]>>
    /\ log["host"] = <<>> /\ health["host"] = InitHealth
    /\ "recv_packets" \notin todo["host"]

\* what an action handler may touch: messages, events, the flag, the caches, the healths
C11_Touched ==
    <<net, host_action_event, client_action_event, monster_type_event, TurnFlag,
      CachedData, CachedAction, health, enemy_health, log, decl, commands, game_state>>

\* C11: out-of-turn input is denied: while a peer's TurnFlag is false, a run of its action
\* handler with action keys pressed sends no message, raises no event and leaves
\* TurnFlag, CachedData, CachedAction and both healths unchanged.
C11_OutOfTurnDenied ==
    [][\A keys \in Pressed :
         /\ (~TurnFlag["host"] /\ host_action_handler(keys)) => UNCHANGED C11_Touched
         /\ (~TurnFlag["client"] /\ client_action_handler(keys)) => UNCHANGED C11_Touched]_vars

\* the client's action handler was the only system of the frame to run, with keys
\* pressed, before the client ever had the turn
C11_Witness ==
    /\ todo["client"] = Systems("client") \ {"client_action_handler"}
    /\ ~TurnFlag["client"] /\ decl["client"] = 0
    /\ net["client"] # <<>> /\ net["host"] = <<>>
    /\ client_action_event["client"] = <<>>

C15_HostFirstAlternation ==
    [][\A keys \in Pressed :
         /\ (TurnFlag["host"] /\ host_action_handler(keys)) =>
              /\ decl["host"] = decl["client"]
              /\ Len(net'["client"]) = Len(net["client"]) + 1
         /\ (TurnFlag["client"] /\ client_action_handler(keys)) =>
              /\ decl["client"] + 1 = decl["host"]
              /\ Len(net'["host"]) = Len(net["host"]) + 1]_vars

\* C20: a missing combatant is not fatal: a resolution handler that runs while the
\* opponent combatant does not exist returns without side effects: the process is not
\* aborted, no message is sent, the flag, the caches and the healths are unchanged.
C20_MissingCombatantNonFatal ==
    [][/\ (host_end_turn_handler /\ enemies["host"] = <<>>) =>
            UNCHANGED <<game_state, net, TurnFlag, CachedData, CachedAction, health,
                        enemy_health, log>>
       /\ (client_end_turn_handler /\ enemies["client"] = <<>>) =>
            UNCHANGED <<game_state, net, TurnFlag, CachedData, CachedAction, health,
                        enemy_health, log>>]_vars

Stalled == ~InFlight /\ ~TurnFlag["host"] /\ ~TurnFlag["client"]

\* no resolution event is raised in this step
NoEventRaised ==
    \A p \in Peers :
      /\ Len(host_action_event'[p]) <= Len(host_action_event[p])
      /\ Len(client_action_event'[p]) <= Len(client_action_event[p])

C16_DrainToExhaustion ==
    [][\A p \in Peers : \A n \in 1..Len(net[p]) :
         ( /\ recv_arrived(p, n)
           /\ \A i \in 1..n : net[p][i].action # "RecvError"
           /\ game_state'[p] = game_state[p] )
         => net'[p] = SubSeq(net[p], n + 1, Len(net[p]))]_vars

\* datagrams as the handlers of this file send them
Sound(batch) ==
    \A i \in 1..Len(batch) :
      /\ batch[i].action \in {"MonsterType", "StartTurn", "FinishTurn"}
      /\ Len(batch[i].payload) = IF batch[i].action = "MonsterType" THEN 8 ELSE 5

\* C17: receive errors are not fatal and have no side effect: a run of recv_packets
\* ends at would-block or at the first other error; what it received before is
\* dispatched as usual, the error itself changes neither TurnFlag nor CachedData nor
\* CachedAction and raises no event, the process goes on, and what is behind the error
\* stays queued for the run of the next tick.
C17_ReceiveErrors ==
    [][\A p \in Peers : \A n \in 1..Len(net[p]) :
         recv_arrived(p, n) =>
           LET errors == {e \in 1..n : net[p][e].action = "RecvError"}
               taken == IF errors = {} THEN n
                        ELSE CHOOSE e \in errors : \A j \in errors : e <= j
               done == SubSeq(net[p], 1, IF errors = {} THEN n ELSE taken - 1)
           IN Sound(done) =>
                /\ net'[p] = SubSeq(net[p], taken + 1, Len(net[p]))
                /\ C10_Received(p, done)
                /\ game_state' = game_state
                /\ "recv_packets" \notin todo'[p]]_vars

\* recv reported an error to a peer, which went on and has resolved a turn since
C17_Witness ==
    /\ fault.kind = "stray" /\ fault.item.action = "RecvError"
    /\ \A i \in 1..Len(net[fault.to]) : net[fault.to][i].action # "RecvError"
    /\ game_state[fault.to] = "MultiplayerPvPBattle"
    /\ Len(log[fault.to]) > fault.logs[fault.to]

ValidElements(elements) == \A i \in 1..Len(elements) : elements[i] \in 0..7

\* C18: element range check: a run of handle_monster_type_event whose announced indices
\* are all in 0..7 queues one opponent combatant per announcement, with that element,
\* and the end of the frame creates them; an index outside 0..7 aborts the process and
\* creates nothing; no opponent combatant with an invalid element ever exists.
C18_ElementRangeCheck ==
    [][/\ \A p \in Peers : ValidElements(enemies'[p]) /\ ValidElements(commands'[p].spawn)
       /\ \A p \in Peers :
            handle_monster_type_event(p) =>
              LET events == monster_type_event[p]
                  nums == [i \in 1..Len(events) |->
                             events[i].payload[1] + 256 * events[i].payload[2]]
              IN IF ValidElements(nums)
                   THEN /\ commands'[p].spawn = commands[p].spawn \o nums
                        /\ game_state' = game_state
                   ELSE /\ game_state'[p] = "aborted"
                        /\ commands' = commands /\ enemies' = enemies
       /\ \A p \in Peers :
            (EndFrame(p) /\ game_state'[p] # "aborted") =>
               enemies'[p] = enemies[p] \o commands[p].spawn]_vars

\* a peer that had its opponent was sent the index 8 and is gone; the other peer has
\* its opponent, of a valid element
C18_Witness ==
    /\ fault.kind = "stray"
    /\ fault.item = [action |-> "MonsterType", payload |-> <<8, 0, 0, 0, 0, 0, 0, 0>>]
    /\ game_state[fault.to] = "aborted"
    /\ Len(enemies[fault.to]) = 1
    /\ monster_type_event[fault.to] = <<>>
    /\ Len(enemies[Other(fault.to)]) = 1
    /\ game_state[Other(fault.to)] = "MultiplayerPvPBattle"

\* bytes that decode to no Message, or a turn message whose payload is not 5 bytes
Malformed(m) ==
    \/ m.action = "Garbage"
    \/ m.action \in {"StartTurn", "FinishTurn"} /\ Len(m.payload) # 5

\* C19: malformed message rejection: a run of recv_packets that receives a malformed
\* datagram leaves TurnFlag, CachedData and CachedAction unchanged, raises no
\* resolution event, and the peer keeps running.
C19_MalformedRejected ==
    [][\A p \in Peers :
         (recv_arrived(p, 1) /\ Malformed(net[p][1])) =>
            /\ game_state' = game_state
            /\ UNCHANGED <<TurnFlag, CachedData, CachedAction, host_action_event,
                           client_action_event>>]_vars

(***************************************************************************)
(* Further properties of mult_calculate_turn, checked under SpecCalc       *)
(***************************************************************************)
\* C21: critical-rate inputs are inert: two calls of mult_calculate_turn that differ
\* only in player_crt and / or enemy_crt return the same damage pair.
C21_CritRateInert ==
    Computed =>
      \A player_crt \in CrtValues : \A enemy_crt \in CrtValues :
         Call([args EXCEPT ![2] = player_crt, ![7] = enemy_crt]) = result

\* both sides hit, the player's rate above the threshold of the commented-out roll, the
\* enemy's rate not
C21_Witness ==
    /\ Computed
    /\ args[2] = 25 /\ args[7] = 15
    /\ args[5] = 0 /\ args[10] = 3
    /\ result[1] > 0 /\ result[2] > 0

C23_BoundedRecursion ==
    Computed =>
      LET inner == inner_calls(args[5], args[10])
      IN /\ call_depth(args[5], args[10]) <= 2
         /\ \A i \in 1..Len(inner) : inner[i][1] # 3 /\ inner[i][2] # 3
         /\ Len(inner) = (IF args[5] = 3 THEN 1 ELSE 0) + (IF args[10] = 3 THEN 1 ELSE 0)
               \/ either_defends(args[5], args[10])

(***************************************************************************)
(* Further properties of the two-peer protocol                             *)
(***************************************************************************)
\* C24: local-action pairing under any handler order: the action a peer declared for a
\* round is still in CachedAction when the peer's resolution of that round reads it:
\* no run of an action handler replaces it while a resolution event of the peer is
\* waiting to be read.
C24_LocalActionPairing ==
    [][\A keys \in Pressed :
         /\ (host_action_handler(keys) /\ host_action_event["host"] # <<>>) =>
              CachedAction'["host"] = CachedAction["host"]
         /\ (client_action_handler(keys) /\ client_action_event["client"] # <<>>) =>
              CachedAction'["client"] = CachedAction["client"]]_vars

\* the StartTurn and FinishTurn datagrams on their way to p
TurnsInFlight(queue) == SelectSeq(queue, LAMBDA m : m.action \in {"StartTurn", "FinishTurn"})

\* C25: one message per turn: each time a peer's TurnFlag goes from true to false the
\* peer sends exactly one StartTurn (host) or FinishTurn (client), and the client
\* raises exactly one ClientActionEvent, for every set of action keys found just
\* pressed; at most one gameplay message per side is in flight.
C25_OneMessagePerTurn ==
    [][/\ \A keys \in Pressed :
            /\ (TurnFlag["host"] /\ ~TurnFlag'["host"] /\ host_action_handler(keys)) =>
                 net'["client"] = Append(net["client"], net'["client"][Len(net'["client"])])
            /\ (TurnFlag["client"] /\ ~TurnFlag'["client"] /\ client_action_handler(keys)) =>
                 /\ net'["host"] = Append(net["host"], net'["host"][Len(net'["host"])])
                 /\ Len(client_action_event'["client"]) = Len(client_action_event["client"]) + 1
       /\ \A p \in Peers : Len(TurnsInFlight(net'[p])) <= 1]_vars

\* C26: resolution order within a round: the client applies a round's damage before the
\* host does; the host resolves round k only after the client declared for round k
\* (and the FinishTurn was received), the client only after the host declared for
\* round k (and the StartTurn was received) and it declared itself.
C26_ResolutionOrder ==
    /\ Len(log["host"]) <= Len(log["client"])
    /\ Len(log["host"]) <= decl["client"]
    /\ Len(log["client"]) <= decl["client"]
    /\ decl["client"] <= decl["host"]

\* a datagram of this kind is on its way to p
Sent(p, kind) == \E i \in 1..Len(net[p]) : net[p][i].action = kind

\* C27: progress on a reliable channel: every host declaration is eventually followed
\* by the client's TurnFlag becoming true, and every client declaration is eventually
\* followed by a client resolution, a host resolution of the same round, and the
\* host's TurnFlag becoming true.
C27_Progress ==
    /\ Sent("client", "StartTurn") ~> TurnFlag["client"]
    /\ Sent("host", "FinishTurn") ~> TurnFlag["host"]
    /\ \A n \in 0..MaxDecl :
         (client_action_event["client"] # <<>> /\ Len(log["client"]) = n)
            ~> (Len(log["client"]) > n)
    /\ \A n \in 0..MaxDecl :
         (Sent("host", "FinishTurn") /\ Len(log["host"]) = n) ~> (Len(log["host"]) > n)

\* C28: resolution counts stay in step: the number of resolutions the client has applied
\* minus the number the host has applied is 0 or 1, and no peer has applied more
\* resolutions than rounds were declared by both sides.
C28_ResolutionCounts ==
    /\ Len(log["client"]) - Len(log["host"]) \in {0, 1}
    /\ \A p \in Peers : Len(log[p]) <= decl["client"]

\* C30: no resolution before the opponent exists: a resolution handler processes a
\* resolution event only when exactly one opponent combatant has been created from a
\* received announcement.
C30_OpponentExists ==
    [][/\ host_end_turn_handler => Len(enemies["host"]) = 1
       /\ client_end_turn_handler => Len(enemies["client"]) = 1]_vars

(***************************************************************************)
(* Properties of one resolved round, checked under SpecRound               *)
(***************************************************************************)
\* C29: damage is never negative and health never increases: both components of the
\* result of mult_calculate_turn are >= 0, so a resolution subtracts a non-negative
\* damage from each health: no health, on either peer, is raised by a resolution (it
\* may fall below zero).
C29_DamageNonNegative ==
    [][/\ \A p \in Peers : health'[p] <= health[p] /\ enemy_health'[p] <= enemy_health[p]
       /\ host_end_turn_handler =>
            LET r == turn_result("host", host_action_event["host"][1])
            IN /\ r[1] >= 0 /\ r[2] >= 0
               /\ health'["host"] = health["host"] - r[2]
               /\ enemy_health'["host"] = enemy_health["host"] - r[1]
       /\ client_end_turn_handler =>
            LET r == turn_result("client", client_action_event["client"][1])
            IN /\ r[1] >= 0 /\ r[2] >= 0
               /\ health'["client"] = health["client"] - r[2]
               /\ enemy_health'["client"] = enemy_health["client"] - r[1]]_vars

\* the host's attack is below the client's defense and does nothing; the client's
\* attack takes the host's health below zero
C29_Witness ==
    /\ log["host"] # <<>>
    /\ stats["host"].atk < stats["client"].def
    /\ enemy_health["host"] = InitHealth
    /\ health["host"] < 0

====
